---- MODULE Spec2Model ----
\* Model of forc-doc's item page components
\* (forc-plugins/forc-doc/src/render/item/components.rs):
\* ItemHeader::render, ItemBody::sidebar and ItemBody::render.
\*
\* Strings built with format! are modelled as sequences of string tokens and
\* concatenation as \o, so that "<prefix><asset>" and "<item> in <path> - Sway"
\* keep their structure.  A horrorshow template is modelled as a tree of nodes
\* [tag, attrs, text, children].
EXTENDS Integers, Sequences, FiniteSets, TLC

\* ---------------------------------------------------------------- bounds
MaxDepth == 10
MaxFields == 2

\* ---------------------------------------------------------------- values
None == <<>>
Some(x) == <<x>>
is_some(o) == Len(o) = 1
unwrap(o) == o[1]

SegmentNames == <<"mypkg", "data", "util">>
FieldNames == <<"x", "y", "z">>
ItemNames == {"Point", "foo"}
DeclKinds == {"StructDecl", "FunctionDecl", "TraitDecl"}
RenderPlans == {[document_private_items |-> FALSE], [document_private_items |-> TRUE]}

Range(s) == {s[i] : i \in 1..Len(s)}
Min(a, b) == IF a < b THEN a ELSE b

\* module paths of every depth 0..MaxDepth, in two different segment orders
PathOf(d, k) == [i \in 1..d |-> SegmentNames[((i + k) % Len(SegmentNames)) + 1]]
ModuleInfos == {[module_prefixes |-> PathOf(d, k)] : d \in 0..MaxDepth, k \in 0..1}

\* field lists without repetition, in any order
FieldLists ==
    LET n == Min(MaxFields, Len(FieldNames))
    IN  UNION {{f \in [1..l -> Range(FieldNames)] :
                    \A i, j \in 1..l : f[i] = f[j] => i = j} : l \in 0..n}
ItemContexts == {[context_opt |-> None]} \cup {[context_opt |-> Some(fs)] : fs \in FieldLists}

\* ---------------------------------------------------------------- templates
El(tag, attrs, children) == [tag |-> tag, attrs |-> attrs, text |-> <<>>, children |-> children]
Attr(name, value) == [name |-> name, value |-> value]
\* ": expr" -- escaped text
Text(tokens) == [tag |-> "#text", attrs |-> <<>>, text |-> tokens, children |-> <<>>]
\* ": Raw(expr)" -- markup inserted verbatim
Raw(tokens) == [tag |-> "#raw", attrs |-> <<>>, text |-> tokens, children |-> <<>>]
\* an error recorded in the template instead of markup
ErrorNode(e) == [tag |-> "#error", attrs |-> <<>>, text |-> <<e>>, children |-> <<>>]

Ok(v) == [st |-> "ok", val |-> v, err |-> ""]
Err(e) == [st |-> "err", val |-> El("#none", <<>>, <<>>), err |-> e]
NoResult == [st |-> "none", val |-> El("#none", <<>>, <<>>), err |-> ""]

\* ---------------------------------------------------------------- collaborators
\* (ModuleInfo, TyDecl, BlockTitle, ItemContext and Sidebar live outside this
\* file; they are modelled at their interface.)

IDENTITY == "IDENTITY"

\* the grave accent of the description's format string
BACKTICK == "(grave)"

\* d parent-directory hops
Hops(d) == [i \in 1..d |-> "../"]

\* ModuleInfo::depth
depth(module_info) == Len(module_info.module_prefixes)

\* ModuleInfo::to_html_shorthand_path_string
to_html_shorthand_path_string(module_info, file_name) ==
    Hops(depth(module_info)) \o <<file_name>>

RECURSIVE JoinPath(_)
JoinPath(segs) ==
    IF Len(segs) = 0 THEN <<>>
    ELSE IF Len(segs) = 1 THEN <<segs[1]>>
    ELSE <<segs[1], "::">> \o JoinPath(Tail(segs))

\* ModuleInfo::location -- the module display path
location(module_info) == JoinPath(module_info.module_prefixes)

\* one rendered anchor of the module path: <a class="mod" href=...>seg</a>
ModuleAnchor(module_info, i) ==
    <<"<a class=\"mod\" href=\"">>
        \o Hops(depth(module_info) - i) \o <<"index.html", "\">",
           module_info.module_prefixes[i], "</a>">>

\* ModuleInfo::get_anchors; fails stands for the path not resolving to anchors
get_anchors(module_info, fails) ==
    IF fails THEN [st |-> "err", val |-> <<>>, err |-> "get_anchors"]
    ELSE [st |-> "ok",
          val |-> [i \in 1..depth(module_info) |-> ModuleAnchor(module_info, i)],
          err |-> ""]

\* TyDecl::doc_name -- the kind tag
doc_name(ty_decl) ==
    CASE ty_decl = "StructDecl" -> "struct"
      [] ty_decl = "FunctionDecl" -> "fn"
      [] ty_decl = "TraitDecl" -> "trait"

\* TyDecl::as_block_title
as_block_title(ty_decl) ==
    CASE ty_decl = "StructDecl" -> "Structs"
      [] ty_decl = "FunctionDecl" -> "Functions"
      [] ty_decl = "TraitDecl" -> "Traits"

\* BlockTitle::item_title_str
item_title_str(block_title) ==
    CASE block_title = "Structs" -> "Struct"
      [] block_title = "Functions" -> "Function"
      [] block_title = "Traits" -> "Trait"

\* the static friendly name the gathering pass gives each kind
friendly_name_of(ty_decl) ==
    CASE ty_decl = "StructDecl" -> "struct"
      [] ty_decl = "FunctionDecl" -> "function"
      [] ty_decl = "TraitDecl" -> "trait"

\* ItemContext::to_doclinks -- one doc-link per piece of substructure, in
\* declaration order; none when the content is absent
to_doclinks(item_context) ==
    IF is_some(item_context.context_opt)
    THEN LET fs == unwrap(item_context.context_opt)
         IN  [i \in 1..Len(fs) |-> [anchor_id |-> fs[i], label |-> fs[i]]]
    ELSE <<>>

\* ItemContext::render -- the substructure region, one entry per field
ItemContext_render(item_context, render_plan, fails) ==
    IF fails THEN Err("ItemContext::render")
    ELSE LET fs == IF is_some(item_context.context_opt)
                   THEN unwrap(item_context.context_opt) ELSE <<>>
         IN  Ok(El("div", <<Attr("class", <<"item-context">>)>>,
                   [i \in 1..Len(fs) |->
                        El("div", <<Attr("id", <<fs[i]>>)>>, <<Text(<<fs[i]>>)>>)]))

\* Sidebar::new
Sidebar_new(version_opt, style, module_info, nav) ==
    [version_opt |-> version_opt, style |-> style, module_info |-> module_info, nav |-> nav]

\* Sidebar::render -- breadcrumbs, heading, then the doc-links verbatim; an
\* empty doc-link list still renders the navigation shell
Sidebar_render(sidebar, render_plan, fails) ==
    IF fails THEN Err("Sidebar::render")
    ELSE Ok(El("nav", <<Attr("class", <<"sidebar">>)>>,
               << El("div", <<Attr("class", <<"sidebar-crumbs">>)>>,
                     [i \in 1..depth(sidebar.module_info) |->
                          Text(<<sidebar.module_info.module_prefixes[i]>>)]),
                  El("h2", <<Attr("class", <<"location">>)>>,
                     <<Text(<<item_title_str(sidebar.style.title[1]), " ",
                              sidebar.style.name[1]>>)>>),
                  El("ul", <<Attr("class", <<"block">>)>>,
                     [i \in 1..Len(sidebar.nav) |->
                          El("a", <<Attr("href", <<IDENTITY, sidebar.nav[i].anchor_id>>)>>,
                             <<Text(<<sidebar.nav[i].label>>)>>)]) >>))

\* ---------------------------------------------------------------- components.rs
VARIABLES header, body, render_plan, head_result, body_result, calls

vars == <<header, body, render_plan, head_result, body_result, calls>>

\* struct ItemHeader
ItemHeader(module_info, friendly_name, item_name) ==
    [module_info |-> module_info, friendly_name |-> friendly_name, item_name |-> item_name]

\* struct ItemBody
ItemBody(module_info, ty_decl, item_name, code_str, attrs_opt, item_context) ==
    [module_info |-> module_info, ty_decl |-> ty_decl, item_name |-> item_name,
     code_str |-> code_str, attrs_opt |-> attrs_opt, item_context |-> item_context]

\* mutant: the theme stylesheet path copied from the normalize line
HeaderAssets_Dup(module_info) ==
    [favicon |-> to_html_shorthand_path_string(module_info, "assets/sway-logo.svg"),
     normalize |-> to_html_shorthand_path_string(module_info, "assets/normalize.css"),
     swaydoc |-> to_html_shorthand_path_string(module_info, "assets/normalize.css"),
     ayu |-> to_html_shorthand_path_string(module_info, "assets/ayu.css"),
     ayu_hjs |-> to_html_shorthand_path_string(module_info, "assets/ayu.min.css")]

\* mutant: the two syntax-theme stylesheets exchanged
HeaderAssets_Swapped(module_info) ==
    [favicon |-> to_html_shorthand_path_string(module_info, "assets/sway-logo.svg"),
     normalize |-> to_html_shorthand_path_string(module_info, "assets/normalize.css"),
     swaydoc |-> to_html_shorthand_path_string(module_info, "assets/swaydoc.css"),
     ayu |-> to_html_shorthand_path_string(module_info, "assets/ayu.min.css"),
     ayu_hjs |-> to_html_shorthand_path_string(module_info, "assets/ayu.css")]

\* ItemHeader::render, the five asset paths of the head
HeaderAssets(module_info) ==
    [favicon |-> to_html_shorthand_path_string(module_info, "assets/sway-logo.svg"),
     normalize |-> to_html_shorthand_path_string(module_info, "assets/normalize.css"),
     swaydoc |-> to_html_shorthand_path_string(module_info, "assets/swaydoc.css"),
     ayu |-> to_html_shorthand_path_string(module_info, "assets/ayu.css"),
     ayu_hjs |-> to_html_shorthand_path_string(module_info, "assets/ayu.min.css")]

\* <ItemHeader as Renderable>::render
ItemHeader_render(self, plan) ==
    LET module_info == self.module_info
        friendly_name == self.friendly_name
        item_name == self.item_name
        favicon == HeaderAssets(module_info).favicon
        normalize == HeaderAssets(module_info).normalize
        swaydoc == HeaderAssets(module_info).swaydoc
        ayu == HeaderAssets(module_info).ayu
        ayu_hjs == HeaderAssets(module_info).ayu_hjs
    IN  Ok(El("head", <<>>, <<
            El("meta", <<Attr("charset", <<"utf-8">>)>>, <<>>),
            El("meta", <<Attr("name", <<"viewport">>),
                         Attr("content", <<"width=device-width, initial-scale=1.0">>)>>, <<>>),
            El("meta", <<Attr("name", <<"generator">>), Attr("content", <<"swaydoc">>)>>, <<>>),
            El("meta", <<Attr("name", <<"description">>),
                         Attr("content",
                              <<"API documentation for the Sway ", BACKTICK, item_name,
                                BACKTICK, " ", friendly_name, " in ", BACKTICK>>
                                  \o location(module_info) \o <<BACKTICK, ".">>)>>, <<>>),
            El("meta", <<Attr("name", <<"keywords">>),
                         Attr("content", <<"sway, swaylang, sway-lang, ", item_name>>)>>, <<>>),
            El("link", <<Attr("rel", <<"icon">>), Attr("href", favicon)>>, <<>>),
            El("title", <<>>,
               <<Text(<<item_name, " in ">> \o location(module_info) \o <<" - Sway">>)>>),
            El("link", <<Attr("rel", <<"stylesheet">>), Attr("type", <<"text/css">>),
                         Attr("href", normalize)>>, <<>>),
            El("link", <<Attr("rel", <<"stylesheet">>), Attr("type", <<"text/css">>),
                         Attr("href", swaydoc), Attr("id", <<"mainThemeStyle">>)>>, <<>>),
            El("link", <<Attr("rel", <<"stylesheet">>), Attr("type", <<"text/css">>),
                         Attr("href", ayu)>>, <<>>),
            El("link", <<Attr("rel", <<"stylesheet">>), Attr("href", ayu_hjs)>>, <<>>)
        >>))

Reverse(q) == [i \in 1..Len(q) |-> q[Len(q) + 1 - i]]

\* mutant: a doc-link for the item's own section added whatever the content
ItemBody_sidebar_Extra(self) ==
    Sidebar_new(None,
                [kind |-> "Item", title |-> Some(as_block_title(self.ty_decl)),
                 name |-> Some(self.item_name)],
                self.module_info,
                <<[anchor_id |-> "fields", label |-> "Fields"]>>
                    \o to_doclinks(self.item_context))

\* mutant: the doc-links handed over in reverse order
ItemBody_sidebar_Reversed(self) ==
    Sidebar_new(None,
                [kind |-> "Item", title |-> Some(as_block_title(self.ty_decl)),
                 name |-> Some(self.item_name)],
                self.module_info,
                Reverse(to_doclinks(self.item_context)))

\* <ItemBody as SidebarNav>::sidebar
ItemBody_sidebar(self) ==
    LET style == [kind |-> "Item",
                  title |-> Some(as_block_title(self.ty_decl)),
                  name |-> Some(self.item_name)]
    IN  Sidebar_new(None, style, self.module_info, to_doclinks(self.item_context))

\* mutant: the module anchors emitted innermost first
MainHeading_Reversed(block_title, rendered_module_anchors, decl_ty, item_name) ==
    El("div", <<Attr("class", <<"main-heading">>)>>, <<
        El("h1", <<Attr("class", <<"fqn">>)>>, <<
            El("span", <<Attr("class", <<"in-band">>)>>,
               <<Text(<<item_title_str(block_title), " ">>)>>
                 \o [i \in 1..Len(rendered_module_anchors) |->
                        Raw(Reverse(rendered_module_anchors)[i])]
                 \o <<El("a", <<Attr("class", <<decl_ty>>), Attr("href", <<IDENTITY>>)>>,
                         <<Text(<<item_name>>)>>)>>)
        >>)
    >>)

\* ItemBody::render, the main heading: div(class="main-heading")
MainHeading(block_title, rendered_module_anchors, decl_ty, item_name) ==
    El("div", <<Attr("class", <<"main-heading">>)>>, <<
        El("h1", <<Attr("class", <<"fqn">>)>>, <<
            El("span", <<Attr("class", <<"in-band">>)>>,
               <<Text(<<item_title_str(block_title), " ">>)>>
                 \o [i \in 1..Len(rendered_module_anchors) |-> Raw(rendered_module_anchors[i])]
                 \o <<El("a", <<Attr("class", <<decl_ty>>), Attr("href", <<IDENTITY>>)>>,
                         <<Text(<<item_name>>)>>)>>)
        >>)
    >>)

\* ItemBody::render, the source-code block: div(class="docblock item-decl")
ItemDecl(decl_ty, code_str) ==
    El("div", <<Attr("class", <<"docblock item-decl">>)>>, <<
        El("pre", <<Attr("class", <<"sway ", decl_ty>>)>>, <<
            El("code", <<>>, <<Text(<<code_str>>)>>)
        >>)
    >>)

\* mutant: the details wrapper emitted without the is_some test
Description_Always(attrs_opt) ==
    <<El("details", <<Attr("class", <<"swaydoc-toggle top-doc">>), Attr("open", <<>>)>>, <<
          El("summary", <<Attr("class", <<"hideme">>)>>,
             <<El("span", <<>>, <<Text(<<"Expand description">>)>>)>>),
          El("div", <<Attr("class", <<"docblock">>)>>,
             <<Raw(IF is_some(attrs_opt) THEN <<unwrap(attrs_opt)>> ELSE <<>>)>>)
      >>)>>

\* ItemBody::render, "@ if attrs_opt.is_some()": the expandable description
Description(attrs_opt) ==
    IF is_some(attrs_opt)
    THEN <<El("details", <<Attr("class", <<"swaydoc-toggle top-doc">>), Attr("open", <<>>)>>, <<
              El("summary", <<Attr("class", <<"hideme">>)>>,
                 <<El("span", <<>>, <<Text(<<"Expand description">>)>>)>>),
              El("div", <<Attr("class", <<"docblock">>)>>, <<Raw(<<unwrap(attrs_opt)>>)>>)
          >>)>>
    ELSE <<>>

\* ItemBody::render, "@ if item_context.is_some()": the rendered Result is
\* placed in the template; an Err is recorded in the template, not returned
Substructure(item_context) ==
    IF is_some(item_context)
    THEN <<IF unwrap(item_context).st = "ok"
           THEN unwrap(item_context).val
           ELSE ErrorNode(unwrap(item_context).err)>>
    ELSE <<>>

\* mutant: the substructure placed before the description
MainContent_Swapped(heading, item_decl, description, substructure) ==
    El("section", <<Attr("id", <<"main-content">>), Attr("class", <<"content">>)>>,
       <<heading, item_decl>> \o substructure \o description)

\* ItemBody::render, section(id="main-content"): heading, source-code block,
\* then the description and the substructure when present
MainContent(heading, item_decl, description, substructure) ==
    El("section", <<Attr("id", <<"main-content">>), Attr("class", <<"content">>)>>,
       <<heading, item_decl>> \o description \o substructure)

\* mutant: the highlighter script referenced without the module prefix
HighlighterPath_NoPrefix(module_info) == <<"assets/highlight.js">>

\* ItemBody::render, the path of the highlighter script
HighlighterPath(module_info) ==
    to_html_shorthand_path_string(module_info, "assets/highlight.js")

Call(op, ok) == [op |-> op, ok |-> ok]

\* <ItemBody as Renderable>::render.  env says which of the collaborators'
\* render steps fail for this item; out is the returned Result and trace the
\* collaborator calls made, in order.
ItemBody_render(self, plan, env) ==
    LET sidebar0 == ItemBody_sidebar(self)
        module_info == self.module_info
        decl_ty == doc_name(self.ty_decl)
        block_title == as_block_title(self.ty_decl)
        sidebar == Sidebar_render(sidebar0, plan, env.sidebar)
        has_ctx == is_some(self.item_context.context_opt)
        item_context == IF has_ctx
                        THEN Some(ItemContext_render(self.item_context, plan, env.context))
                        ELSE None
        sway_hjs == HighlighterPath(module_info)
        rendered_module_anchors == get_anchors(module_info, env.anchors)
        t1 == <<Call("ItemContext::to_doclinks", TRUE), Call("Sidebar::render", sidebar.st = "ok")>>
        t2 == IF has_ctx
              THEN <<Call("ItemContext::render", unwrap(item_context).st = "ok")>>
              ELSE <<>>
        t3 == <<Call("ModuleInfo::get_anchors", rendered_module_anchors.st = "ok")>>
    IN  IF sidebar.st # "ok"
        THEN [out |-> Err(sidebar.err), trace |-> t1]
        ELSE IF rendered_module_anchors.st # "ok"
        THEN [out |-> Err(rendered_module_anchors.err), trace |-> t1 \o t2 \o t3]
        ELSE [out |-> Ok(El("body", <<Attr("class", <<"swaydoc ", decl_ty>>)>>, <<
                          sidebar.val,
                          El("main", <<>>, <<
                              El("div", <<Attr("class", <<"width-limiter">>)>>, <<
                                  MainContent(
                                      MainHeading(block_title, rendered_module_anchors.val,
                                                  decl_ty, self.item_name),
                                      ItemDecl(decl_ty, self.code_str),
                                      Description(self.attrs_opt),
                                      Substructure(item_context))
                              >>)
                          >>),
                          El("script", <<Attr("src", sway_hjs)>>, <<>>),
                          El("script", <<>>, <<Text(<<"hljs.highlightAll();">>)>>)
                      >>)),
              trace |-> t1 \o t2 \o t3]

Envs == [sidebar : BOOLEAN, context : BOOLEAN, anchors : BOOLEAN]

\* one documented item: an ItemHeader and an ItemBody built from the same
\* ModuleInfo and identifier, neither rendered yet
Init ==
    \E mi \in ModuleInfos, k \in DeclKinds, n \in ItemNames,
       a \in {None, Some("<p>docs</p>")}, c \in ItemContexts, p \in RenderPlans :
        /\ header = ItemHeader(mi, friendly_name_of(k), n)
        /\ body = ItemBody(mi, k, n, "<code>", a, c)
        /\ render_plan = p
        /\ head_result = NoResult
        /\ body_result = NoResult
        /\ calls = <<>>

\* the page assembler renders the header (render consumes self)
RenderHeader ==
    /\ head_result.st = "none"
    /\ head_result' = ItemHeader_render(header, render_plan)
    /\ UNCHANGED <<header, body, render_plan, body_result, calls>>

\* the page assembler renders the body (render consumes self)
RenderBody ==
    /\ body_result.st = "none"
    /\ \E env \in Envs :
        LET r == ItemBody_render(body, render_plan, env)
        IN  /\ body_result' = r.out
            /\ calls' = r.trace
    /\ UNCHANGED <<header, body, render_plan, head_result>>

Next == RenderHeader \/ RenderBody

Spec == Init /\ [][Next]_vars

\* ---------------------------------------------------------------- observation
RECURSIVE Nodes(_)
\* every node of a template, the root included
Nodes(n) == {n} \cup UNION {Nodes(n.children[i]) : i \in 1..Len(n.children)}

AttrValues(n, name) == {n.attrs[i].value : i \in {j \in 1..Len(n.attrs) : n.attrs[j].name = name}}
HasAttr(n, name, value) == value \in AttrValues(n, name)

\* writing a template out: errors recorded in it surface here, and nothing
\* is written
into_string(fragment) ==
    LET errs == {m \in Nodes(fragment) : m.tag = "#error"}
    IN  IF errs = {} THEN Ok(fragment) ELSE Err((CHOOSE m \in errs : TRUE).text[1])

\* hrefs of <link> elements and srcs of <script> elements
AssetRefs(n) ==
    UNION {AttrValues(m, "href") : m \in {x \in Nodes(n) : x.tag = "link"}}
      \cup UNION {AttrValues(m, "src") : m \in {x \in Nodes(n) : x.tag = "script"}}

AssetName(ref) == ref[Len(ref)]

HeadOk == head_result.st = "ok"
BodyOk == body_result.st = "ok"
\* the body was returned and can be written out
BodyRendered == BodyOk /\ into_string(body_result.val).st = "ok"
HasContent == is_some(body.item_context.context_opt)
Failed(op) == \E i \in 1..Len(calls) : calls[i].op = op /\ ~calls[i].ok

PageAssets == AssetRefs(head_result.val) \cup AssetRefs(body_result.val)
Links(rel) == {m \in Nodes(head_result.val) : m.tag = "link" /\ HasAttr(m, "rel", <<rel>>)}

InBand ==
    CHOOSE m \in Nodes(body_result.val) : m.tag = "span" /\ HasAttr(m, "class", <<"in-band">>)
Section == CHOOSE m \in Nodes(body_result.val) : m.tag = "section"
SidebarNode == body_result.val.children[1]
SidebarList == CHOOSE m \in Nodes(SidebarNode) : m.tag = "ul"
\* the doc-links the rendered sidebar shows, in order
SidebarLinks ==
    [i \in 1..Len(SidebarList.children) |->
        [anchor_id |-> SidebarList.children[i].attrs[1].value[2],
         label |-> SidebarList.children[i].children[1].text[1]]]
DescriptionAt == {i \in 1..Len(Section.children) : Section.children[i].tag = "details"}
SubstructureAt ==
    {i \in 1..Len(Section.children) : HasAttr(Section.children[i], "class", <<"item-context">>)}
\* anchor ids the substructure region of the body carries
RegionIds ==
    UNION {AttrValues(m, "id") : m \in UNION {Nodes(Section.children[i]) : i \in SubstructureAt}}
ContextCalls == {i \in 1..Len(calls) : calls[i].op = "ItemContext::render"}

\* ---------------------------------------------------------------- claims

\* C1 as stated: the head and body fragments of one item together reference
\* exactly five distinct static assets.
C1_FiveAssets ==
    (HeadOk /\ BodyOk) => Cardinality(PageAssets) = 5

\* C1 amended: the head and body fragments of one item together reference
\* exactly six distinct static assets -- the favicon, the four stylesheets
\* normalize, swaydoc, ayu and ayu.min, and the highlighter script -- each
\* through ModuleInfo's module-relative path function, and no other asset.
C1_SixAssets ==
    (HeadOk /\ BodyOk) =>
        /\ header.module_info = body.module_info
        /\ Cardinality(PageAssets) = 6
        /\ {AssetName(r) : r \in PageAssets}
             = {"assets/sway-logo.svg", "assets/normalize.css", "assets/swaydoc.css",
                "assets/ayu.css", "assets/ayu.min.css", "assets/highlight.js"}
        /\ \A r \in PageAssets :
             r = to_html_shorthand_path_string(body.module_info, AssetName(r))
        /\ Cardinality(Links("icon")) = 1
        /\ Cardinality(Links("stylesheet")) = 4
        /\ Cardinality(AssetRefs(body_result.val)) = 1

C1_Witness == HeadOk /\ BodyOk /\ depth(body.module_info) = 2

C3_FailurePropagates ==
    body_result.st # "none" =>
        (body_result.st = "err" <=> \E i \in 1..Len(calls) : ~calls[i].ok)

\* C4: when the ItemContext has no content the doc-link sequence handed to
\* the Sidebar is empty, and in every rendered body each doc-link the sidebar
\* shows targets an anchor of the substructure region emitted on that page.
C4_NoDanglingDocLinks ==
    body_result.st # "none" =>
        /\ ~HasContent => ItemBody_sidebar(body).nav = <<>>
        /\ BodyRendered =>
             /\ ~HasContent => SidebarLinks = <<>>
             /\ \A i \in 1..Len(SidebarLinks) : <<SidebarLinks[i].anchor_id>> \in RegionIds

C4_Witness == BodyRendered /\ ~HasContent /\ SidebarNode.tag = "nav"

\* C5: the rendered body has the expandable-description region iff a
\* description is present and the substructure region iff the ItemContext
\* has content, the substructure after the description; ItemContext.render
\* is invoked at most once and only when there is content.
C5_ConditionalRegions ==
    body_result.st # "none" =>
        /\ Cardinality(ContextCalls) <= 1
        /\ ContextCalls # {} => HasContent
        /\ BodyOk => (ContextCalls # {} <=> HasContent)
        /\ BodyOk => Cardinality(DescriptionAt) = (IF is_some(body.attrs_opt) THEN 1 ELSE 0)
        /\ BodyOk => Cardinality(SubstructureAt) <= 1
        /\ BodyOk => (SubstructureAt # {} => HasContent)
        /\ BodyRendered => (SubstructureAt # {} <=> HasContent)
        /\ BodyOk => \A i \in DescriptionAt, j \in SubstructureAt : i < j

C5_Witness ==
    BodyRendered /\ is_some(body.attrs_opt) /\ HasContent
        /\ DescriptionAt # {} /\ SubstructureAt # {}

AssetNames ==
    {"assets/sway-logo.svg", "assets/normalize.css", "assets/swaydoc.css",
     "assets/ayu.css", "assets/ayu.min.css", "assets/highlight.js"}

\* the asset hrefs emitted so far for the item
EmittedRefs ==
    (IF HeadOk THEN AssetRefs(head_result.val) ELSE {})
        \cup (IF BodyOk THEN AssetRefs(body_result.val) ELSE {})

\* C6: at every module depth d in 0..MaxDepth each asset href of the head
\* (favicon, four stylesheets) and of the body (highlighter script) is exactly
\* d parent-directory hops followed by the literal asset path; at depth 0
\* the prefix is empty, and all hrefs of the page carry the same prefix.
C6_DepthInvariance ==
    LET d == depth(header.module_info)
    IN  /\ d \in 0..MaxDepth
        /\ depth(body.module_info) = d
        /\ HeadOk => Cardinality(AssetRefs(head_result.val)) = 5
        /\ BodyOk => Cardinality(AssetRefs(body_result.val)) = 1
        /\ \A r \in EmittedRefs :
             /\ Len(r) = d + 1
             /\ \A i \in 1..d : r[i] = "../"
             /\ r[d + 1] \in AssetNames
        /\ \A r1, r2 \in EmittedRefs : SubSeq(r1, 1, d) = SubSeq(r2, 1, d)

C6_Witness ==
    HeadOk /\ BodyOk /\ depth(header.module_info) = MaxDepth
        /\ Cardinality(EmittedRefs) = 6

\* C7: the sidebar placed first in the body shows exactly the sequence
\* item_context.to_doclinks() returns -- same elements, same order -- and
\* the sidebar fragment is rendered and included also when it is empty.
C7_SidebarShowsDocLinks ==
    BodyOk =>
        /\ SidebarNode.tag = "nav"
        /\ SidebarNode = Sidebar_render(ItemBody_sidebar(body), render_plan, FALSE).val
        /\ ItemBody_sidebar(body).nav = to_doclinks(body.item_context)
        /\ Len(SidebarLinks) = Len(to_doclinks(body.item_context))
        /\ \A i \in 1..Len(SidebarLinks) : SidebarLinks[i] = to_doclinks(body.item_context)[i]
        /\ calls[2] = Call("Sidebar::render", TRUE)

C7_Witness ==
    BodyOk /\ Len(to_doclinks(body.item_context)) = 2 /\ Len(SidebarLinks) = 2

Href(n) == CHOOSE v \in AttrValues(n, "href") : TRUE

\* C9: ItemHeader.render always succeeds and the head holds, in order:
\* charset, viewport and generator metadata; the description meta tag; the
\* keywords meta tag; the favicon link; the title "<item> in <module path> -
\* Sway"; then exactly four stylesheet links: normalize, swaydoc, ayu,
\* ayu.min.
C9_HeadLayout ==
    head_result.st # "none" =>
        /\ HeadOk
        /\ LET ch == head_result.val.children
               mi == header.module_info
           IN  /\ head_result.val.tag = "head"
               /\ Len(ch) = 11
               /\ \A i \in 1..5 : ch[i].tag = "meta"
               /\ HasAttr(ch[1], "charset", <<"utf-8">>)
               /\ HasAttr(ch[2], "name", <<"viewport">>)
               /\ HasAttr(ch[3], "name", <<"generator">>)
               /\ HasAttr(ch[4], "name", <<"description">>)
               /\ \E c \in AttrValues(ch[4], "content") :
                    {header.item_name, header.friendly_name} \subseteq Range(c)
               /\ HasAttr(ch[5], "name", <<"keywords">>)
               /\ ch[6].tag = "link" /\ HasAttr(ch[6], "rel", <<"icon">>)
               /\ AssetName(Href(ch[6])) = "assets/sway-logo.svg"
               /\ ch[7].tag = "title"
               /\ ch[7].children
                    = <<Text(<<header.item_name, " in ">> \o location(mi) \o <<" - Sway">>)>>
               /\ \A i \in 8..11 : ch[i].tag = "link" /\ HasAttr(ch[i], "rel", <<"stylesheet">>)
               /\ <<AssetName(Href(ch[8])), AssetName(Href(ch[9])),
                    AssetName(Href(ch[10])), AssetName(Href(ch[11]))>>
                    = <<"assets/normalize.css", "assets/swaydoc.css",
                        "assets/ayu.css", "assets/ayu.min.css">>
               /\ Cardinality(Links("stylesheet")) = 4

C9_Witness == HeadOk /\ depth(header.module_info) = 1 /\ header.item_name = "foo"

\* C10: a body fragment returned by ItemBody.render carries the class
\* "swaydoc <kind tag>" and holds, in order: the sidebar fragment, the main
\* heading, the source-code block, the description block (if present, open),
\* the substructure fragment (if present), the script tag loading the
\* highlighter and the inline script invoking it.
C10_BodyLayout ==
    BodyOk =>
        LET b == body_result.val
            ch == b.children
            sec == Section.children
            n == 2 + (IF is_some(body.attrs_opt) THEN 1 ELSE 0) + (IF HasContent THEN 1 ELSE 0)
        IN  /\ b.tag = "body"
            /\ AttrValues(b, "class") = {<<"swaydoc ", doc_name(body.ty_decl)>>}
            /\ Len(ch) = 4
            /\ ch[1].tag = "nav"
            /\ ch[2].tag = "main" /\ Section \in Nodes(ch[2])
            /\ Len(sec) = n
            /\ HasAttr(sec[1], "class", <<"main-heading">>) /\ InBand \in Nodes(sec[1])
            /\ HasAttr(sec[2], "class", <<"docblock item-decl">>)
            /\ Text(<<body.code_str>>) \in Nodes(sec[2])
            /\ is_some(body.attrs_opt) =>
                 /\ sec[3].tag = "details"
                 /\ HasAttr(sec[3], "open", <<>>)
                 /\ Raw(<<unwrap(body.attrs_opt)>>) \in Nodes(sec[3])
            /\ HasContent =>
                 \/ HasAttr(sec[n], "class", <<"item-context">>)
                 \/ sec[n].tag = "#error" /\ Failed("ItemContext::render")
            /\ ch[3].tag = "script"
            /\ {AssetName(r) : r \in AttrValues(ch[3], "src")} = {"assets/highlight.js"}
            /\ ch[4].tag = "script"
            /\ ch[4].children = <<Text(<<"hljs.highlightAll();">>)>>

C10_Witness ==
    BodyRendered /\ is_some(body.attrs_opt) /\ HasContent
        /\ Len(Section.children) = 4 /\ body.ty_decl = "TraitDecl"

====
